---- MODULE Spec2Model ----
(***************************************************************************)
(* Battleship-Simulator: the path follower                                 *)
(* (SimulatorUtilities.update_path_coordinates_with_angle), the subsystem  *)
(* framework and command registry (BattleshipModel.attach_system /         *)
(* handle_command, Engine, Rudder, Weapons, Navigation), the per-tick      *)
(* orchestration of BattleshipModel.update / World.update and the          *)
(* controller loop.                                                        *)
(*                                                                         *)
(* Numbers.  The program computes with Python floats; the model computes   *)
(* with the real numbers they approximate.  A coordinate or a distance is  *)
(* a number (a + b * sqrt(2)) / d with whole a, b, d: on a segment         *)
(* parallel to an axis or to a diagonal, such as the first two legs of     *)
(* main.py's waypoint list, math.sqrt returns such a number, the unit      *)
(* direction vector has such components, math.atan2 returns a multiple of  *)
(* 45 degrees and the position after a step is such a number again.  The   *)
(* length of any other segment (the last leg of main.py's list) is kept as *)
(* the root of a number and is only compared with.  Where the program      *)
(* holds 221.21320343559643 the model holds 200 + 15 * sqrt(2), written    *)
(* <<200, 15, 1>>.  Time steps of the ship are even, so that               *)
(* acceleration * timedelta (0.5 * dt) is a whole number.  Polygon         *)
(* coordinates are numbers of the same kind at a fixed denominator (see    *)
(* Geometry).                                                              *)
(*                                                                         *)
(* Exceptions.  A Python exception raised by an operation is recorded by   *)
(* its class name ("ZeroDivisionError", "IndexError", "KeyError",          *)
(* "TypeError", "AttributeError"); "none" means the call returned.  The    *)
(* state changes made before the raise are kept, as in the program.        *)
(*                                                                         *)
(* Specifications.  PathSpec applies the path follower to every bounded    *)
(* input; CommandSpec attaches subsystems in every order and dispatches    *)
(* commands; EngineSpec ticks and commands the Engine of the ship main.py  *)
(* builds and RampSpec ticks it until the speed settles; WalkSpec calls    *)
(* the follower tick after tick; AttributeSpec sets and gets attributes by *)
(* name through the controller; Spec starts from the state main.py         *)
(* reaches before arcade.run() and runs it through view updates.           *)
(***************************************************************************)
EXTENDS Integers, Sequences, FiniteSets, TLC

VARIABLES
    \* ---- path follower called as a function (PathSpec) ----
    pf_pc,            \* "call": arguments chosen; "return": the call has ended
    pf_path,          \* argument path
    pf_speed,         \* argument speed
    pf_timedelta,     \* argument timedelta
    pf_result,        \* what the call produced (PathResult record)
    \* ---- BattleshipModel ----
    x, y, angle,
    last_x, last_y, last_angle,
    current_speed,
    collision_warning, collision_event,
    ship_geometry,    \* [battleship_geometry, minimum_safe_area_geometry]: ship-frame polygons
    systems,          \* dict name -> subsystem object, in insertion order: <<name, object>> pairs
    command_registry, \* dict command token -> subsystem object
    \* ---- subsystem objects ----
    desired_speed,    \* Engine.desired_speed of each Engine object
    waypoints,        \* Navigation.waypoints
    projected_path,   \* Navigation.projected_path
    \* ---- World ----
    total_time, timedelta,
    world_obstacles,  \* World.obstacles
    \* ---- BattleshipController ----
    simulation_running,
    log_rows,         \* rows the CSVLogger has written
    logger_closed,
    \* ---- the last call made on the program and how it ended ----
    call,             \* [op |-> ..., ...arguments]
    fault             \* "none" or the class of the exception the call raised

pf_vars == <<pf_pc, pf_path, pf_speed, pf_timedelta, pf_result>>
model_vars == <<x, y, angle, last_x, last_y, last_angle, current_speed,
                collision_warning, collision_event, ship_geometry, systems,
                command_registry>>
system_vars == <<desired_speed, waypoints, projected_path>>
world_vars == <<total_time, timedelta, world_obstacles>>
controller_vars == <<simulation_running, log_rows, logger_closed>>
ship_vars == <<model_vars, system_vars, world_vars, controller_vars, call, fault>>

----------------------------------------------------------------------------
(* Bounds of the path-follower inputs *)
GridMax == 2          \* path points have coordinates in 0..GridMax
MaxPathLen == 4       \* paths of 0..MaxPathLen points
MaxPfSpeed == 3       \* speed in 0..MaxPfSpeed
MaxPfDt == 3          \* timedelta in 0..MaxPfDt

(* Bounds of the ship runs *)
MaxTicks == 3         \* at most MaxTicks view updates
MaxWaypoints == 2     \* add_waypoint is called while the list is shorter than this

(* Bounds of the Engine runs *)
MaxEngineHalfDt == 3  \* Engine ticks with timedelta 0, 2, .., 2 * MaxEngineHalfDt
SpeedMargin == 1      \* speeds and SET_SPEED arguments reach this far outside
                      \* [min_speed, max_speed]

----------------------------------------------------------------------------
(* Numbers: a coordinate or a distance is the number (a + b * sqrt(2)) / d, *)
(* held as <<a, b, d>> with d > 0 and a, b, d without a common factor       *)

Abs(n) == IF n < 0 THEN -n ELSE n

RECURSIVE GCD(_, _)
GCD(m, n) == IF n = 0 THEN m ELSE GCD(n, m % n)

\* (a + b * sqrt(2)) / d in lowest terms, d # 0
Lowest(a, b, d) ==
    LET g == GCD(GCD(Abs(a), Abs(b)), Abs(d))
    IN  IF d < 0 THEN <<(-a) \div g, (-b) \div g, (-d) \div g>>
        ELSE <<a \div g, b \div g, d \div g>>

\* the whole number n
Num(n) == <<n, 0, 1>>

\* sqrt(2)
Root2 == <<0, 1, 1>>

NAdd(u, v) == Lowest(u[1] * v[3] + v[1] * u[3], u[2] * v[3] + v[2] * u[3], u[3] * v[3])
NNeg(u) == <<-u[1], -u[2], u[3]>>
NSub(u, v) == NAdd(u, NNeg(v))
NMul(u, v) == Lowest(u[1] * v[1] + 2 * u[2] * v[2], u[1] * v[2] + u[2] * v[1], u[3] * v[3])

\* u / v for v # 0: u times the conjugate of v over the norm of v
NDiv(u, v) ==
    Lowest((u[1] * v[1] - 2 * u[2] * v[2]) * v[3],
           (u[2] * v[1] - u[1] * v[2]) * v[3],
           u[3] * (v[1] * v[1] - 2 * v[2] * v[2]))

\* Whole numbers beyond 32 bits: the sequence w stands for the sum of
\* w[i] * 4096^(i-1).  Long(n) has three digits, the first two in 0..4095.
Long(n) == <<n % 4096, (n \div 4096) % 4096, n \div (4096 * 4096)>>

LongAdd(u, v) == [i \in DOMAIN u |-> u[i] + v[i]]
LongSub(u, v) == [i \in DOMAIN u |-> u[i] - v[i]]
LongTwice(u) == [i \in DOMAIN u |-> 2 * u[i]]

\* the sum of u[i] * v[k + 1 - i] for i in lo..hi
RECURSIVE DigitProducts(_, _, _, _, _)
DigitProducts(u, v, k, lo, hi) ==
    IF lo > hi THEN 0 ELSE u[lo] * v[k + 1 - lo] + DigitProducts(u, v, k, lo + 1, hi)

LongMul(u, v) ==
    [k \in 1..(Len(u) + Len(v) - 1) |->
        DigitProducts(u, v, k,
                      IF k + 1 - Len(v) > 1 THEN k + 1 - Len(v) ELSE 1,
                      IF k < Len(u) THEN k ELSE Len(u))]

\* the same number with digits in 0..4095 and the rest in one more digit
RECURSIVE Carried(_, _)
Carried(w, carry) ==
    IF w = <<>>
    THEN <<carry>>
    ELSE <<(w[1] + carry) % 4096>> \o Carried(Tail(w), (w[1] + carry) \div 4096)

\* the sign of the number w stands for
LongSign(w) ==
    LET c == Carried(w, 0)
        top == c[Len(c)]
    IN  IF top > 0 THEN 1
        ELSE IF top < 0 THEN -1
        ELSE IF \E i \in DOMAIN c : c[i] # 0 THEN 1 ELSE 0

Sign(n) == IF n > 0 THEN 1 ELSE IF n < 0 THEN -1 ELSE 0

\* the sign of p + q * sqrt(2) from the signs sp and sq of p and q and the
\* sign of p * p - 2 * q * q
RootSign(sp, sq, squares) ==
    IF sp = 0 THEN sq
    ELSE IF sq = 0 \/ sq = sp THEN sp
    ELSE sp * squares

\* the sign of a + b * sqrt(2) for whole a and b.  When a and b differ in
\* sign it is the sign of a if |a| > |b| * sqrt(2) and the sign of b otherwise:
\* 1.41 < sqrt(2) < 1.42 decides most cases, the squares decide the rest
SignOfSum(a, b) ==
    LET sa == Sign(a)
        sb == Sign(b)
        m == sa * a
        n == sb * b
    IN  IF sa = 0 \/ sb = 0 \/ sa = sb THEN RootSign(sa, sb, 0)
        ELSE IF m <= n + (n \div 100) * 41 THEN sb
        ELSE IF m >= n + (n \div 100) * 42 + 42 THEN sa
        ELSE RootSign(sa, sb,
                      LongSign(LongSub(LongMul(Long(a), Long(a)),
                                       LongTwice(LongMul(Long(b), Long(b))))))

\* the sign of u: -1, 0 or 1
NSign(u) == SignOfSum(u[1], u[2])

NLess(u, v) == NSign(NSub(u, v)) < 0
NLeq(u, v) == NSign(NSub(u, v)) <= 0
NAbs(u) == IF NSign(u) < 0 THEN NNeg(u) ELSE u

\* the point (px, py) of whole coordinates
Point(px, py) == <<Num(px), Num(py)>>

\* math.sqrt(dx ** 2 + dy ** 2).  The root is a number when the segment is
\* parallel to an axis or to a diagonal; any other root is kept as
\* <<"sqrt", s>>, s the sum of the squares, and can only be compared
Hypotenuse(dx, dy) ==
    LET s == NAdd(NMul(dx, dx), NMul(dy, dy))
        roots == {r \in {NAbs(dx), NAbs(dy), NMul(Root2, NAbs(dx))} : NMul(r, r) = s}
    IN  IF roots # {} THEN CHOOSE r \in roots : TRUE ELSE <<"sqrt", s>>

IsRoot(r) == Len(r) = 2

\* distance > r and distance >= r for a number distance and a root r
Exceeds(distance, r) ==
    IF IsRoot(r)
    THEN NSign(distance) > 0 /\ NLess(r[2], NMul(distance, distance))
    ELSE NLess(r, distance)
Reaches(distance, r) ==
    IF IsRoot(r)
    THEN NSign(distance) > 0 /\ NLeq(r[2], NMul(distance, distance))
    ELSE NLeq(r, distance)

\* Python's % with a positive modulus (result in 0..m-1); TLA+'s % agrees
PyMod(a, m) == a % m

\* math.degrees(math.atan2(dy, dx)) for a vector parallel to an axis or to a
\* diagonal; atan2(0, 0) is 0
Atan2Degrees(dy, dx) ==
    LET sx == NSign(dx)
        sy == NSign(dy)
        diagonal == NAbs(dx) = NAbs(dy)
    IN  CASE sx = 0 /\ sy = 0 -> 0
          [] sx > 0 /\ sy = 0 -> 0
          [] sx > 0 /\ sy > 0 /\ diagonal -> 45
          [] sx = 0 /\ sy > 0 -> 90
          [] sx < 0 /\ sy > 0 /\ diagonal -> 135
          [] sx < 0 /\ sy = 0 -> 180
          [] sx < 0 /\ sy < 0 /\ diagonal -> -135
          [] sx = 0 /\ sy < 0 -> -90
          [] sx > 0 /\ sy < 0 /\ diagonal -> -45

\* SimulatorUtilities.calculate_angle_degrees
calculate_angle_degrees(x1, y1, x2, y2) ==
    LET delta_x == NSub(x2, x1)
        delta_y == NSub(y2, y1)
    IN  PyMod(Atan2Degrees(delta_y, delta_x) - 90, 360)

----------------------------------------------------------------------------
(* update_path_coordinates_with_angle *)

\* math.sqrt((b[0]-a[0])**2 + (b[1]-a[1])**2)
SegmentLength(a, b) == Hypotenuse(NSub(b[1], a[1]), NSub(b[2], a[2]))

\* (b - a) / distance, componentwise, distance # 0
DirectionX(a, b, distance) == NDiv(NSub(b[1], a[1]), distance)
DirectionY(a, b, distance) == NDiv(NSub(b[2], a[2]), distance)

\* math.degrees(math.atan2(dy, dx)) % 360 of the unit vector from a to b (lines 125-130)
SegmentFacing(a, b) ==
    LET d == SegmentLength(a, b)
    IN  PyMod(Atan2Degrees(DirectionY(a, b, d), DirectionX(a, b, d)), 360)

\* a raised exception; path is the caller's list as the call left it
Raised(exc, path) == [fault |-> exc, path |-> path]

\* The while loop (lines 132-147).  w = [path, distance_to_cover,
\* distance_to_next_waypoint, fault]; current_pos is w.path[1] and
\* next_waypoint is w.path[2] throughout.  dx and dy of lines 146-147 are the
\* direction of that segment; a zero length raises where they are computed,
\* which ends the loop and the call with the list popped so far.
RECURSIVE WalkSegments(_)
WalkSegments(w) ==
    IF /\ w.fault = "none"
       /\ Exceeds(w.distance_to_cover, w.distance_to_next_waypoint)
       /\ Len(w.path) > 2
    THEN LET remaining == NSub(w.distance_to_cover, w.distance_to_next_waypoint)
             popped == Tail(w.path)
             d == SegmentLength(popped[1], popped[2])
         IN  WalkSegments([path |-> popped,
                           distance_to_cover |-> remaining,
                           distance_to_next_waypoint |-> d,
                           fault |-> IF d = Num(0) THEN "ZeroDivisionError" ELSE "none"])
    ELSE w

\* FollowerReturn with the slice path[2:] in place of path[1:]
FollowerReturnSkipsWaypoint(w, facing_angle_degrees) ==
    LET current_pos == w.path[1] IN
    IF Len(w.path) <= 2 /\ Reaches(w.distance_to_cover, w.distance_to_next_waypoint)
    THEN [fault |-> "none", x |-> current_pos[1], y |-> current_pos[2],
          angle |-> facing_angle_degrees, path |-> <<>>]
    ELSE LET dx == DirectionX(w.path[1], w.path[2], w.distance_to_next_waypoint)
             dy == DirectionY(w.path[1], w.path[2], w.distance_to_next_waypoint)
             new_x == NAdd(current_pos[1], NMul(dx, w.distance_to_cover))
             new_y == NAdd(current_pos[2], NMul(dy, w.distance_to_cover))
         IN  [fault |-> "none", x |-> new_x, y |-> new_y,
              angle |-> facing_angle_degrees,
              path |-> <<<<new_x, new_y>>>> \o Tail(Tail(w.path))]

\* The return statements (lines 149-160), after a loop that raised nothing
FollowerReturn(w, facing_angle_degrees) ==
    LET current_pos == w.path[1] IN
    IF Len(w.path) <= 2 /\ Reaches(w.distance_to_cover, w.distance_to_next_waypoint)
    THEN [fault |-> "none", x |-> current_pos[1], y |-> current_pos[2],
          angle |-> facing_angle_degrees, path |-> <<>>]
    ELSE LET dx == DirectionX(w.path[1], w.path[2], w.distance_to_next_waypoint)
             dy == DirectionY(w.path[1], w.path[2], w.distance_to_next_waypoint)
             new_x == NAdd(current_pos[1], NMul(dx, w.distance_to_cover))
             new_y == NAdd(current_pos[2], NMul(dy, w.distance_to_cover))
         IN  [fault |-> "none", x |-> new_x, y |-> new_y,
              angle |-> facing_angle_degrees,
              path |-> <<<<new_x, new_y>>>> \o Tail(w.path)]

\* what the call does after the loop ended as w: a raise inside the loop
\* (line 146) leaves the function, otherwise the return statements run
AfterWalk(w, facing_angle_degrees) ==
    IF w.fault # "none"
    THEN Raised(w.fault, w.path)
    ELSE FollowerReturn(w, facing_angle_degrees)

\* lines 121-160 for a first segment of length d # 0
WalkFrom(path, distance_to_cover, d) ==
    AfterWalk(WalkSegments([path |-> path,
                            distance_to_cover |-> distance_to_cover,
                            distance_to_next_waypoint |-> d,
                            fault |-> "none"]),
              SegmentFacing(path[1], path[2]))

\* lines 116-160 for a first segment of length d
FirstSegment(path, distance_to_cover, d) ==
    IF d = Num(0)
    THEN Raised("ZeroDivisionError", path)             \* line 125
    ELSE WalkFrom(path, distance_to_cover, d)

update_path_coordinates_with_angle(path, speed, dt) ==
    IF Len(path) < 2
    THEN Raised("IndexError", path)                    \* path[0] / path[1]
    ELSE FirstSegment(path, Num(speed * dt), SegmentLength(path[1], path[2]))

----------------------------------------------------------------------------
(* Geometry: transform_coordinates and polygons_intersect (shapely).        *)
(* A length of the geometry is the number (A + B * sqrt(2)) / 400000        *)
(* metres, held as <<A, B>> with whole A and B.  The hull's vertices        *)
(* (56.98, -19.25, -53.9 ...), the obstacle, every position the ship takes, *)
(* the centre of every bounding box and every rotation by a multiple of 45  *)
(* degrees are exact in this form; the vertices of the buffered hull, which *)
(* the program holds as floats, are taken to the nearest 0.00001 m.  A      *)
(* polygon is a closed ring, the sequence of its vertices with the first    *)
(* one repeated at the end, as shapely returns it.                          *)

\* the length of n / 100000 metres
Lifted(n) == <<4 * n, 0>>

\* the length of the number u of metres (the denominator of u divides 400000)
Fixed(u) == <<(u[1] * 400000) \div u[3], (u[2] * 400000) \div u[3]>>

GAdd(u, v) == <<u[1] + v[1], u[2] + v[2]>>
GSub(u, v) == <<u[1] - v[1], u[2] - v[2]>>
GNeg(u) == <<-u[1], -u[2]>>

\* n / 2; every length the geometry halves is even
Half(n) == n \div 2
GHalf(u) == <<Half(u[1]), Half(u[2])>>

\* u * sqrt(2) / 2, the sine and cosine of 45 degrees
HalfRoot2(u) == <<u[2], Half(u[1])>>

\* the sign of the length u
GSign(u) == SignOfSum(u[1], u[2])

GLess(u, v) == GSign(GSub(u, v)) < 0
GLeq(u, v) == GSign(GSub(u, v)) <= 0
GMin(u, v) == IF GLess(v, u) THEN v ELSE u
GMax(u, v) == IF GLess(u, v) THEN v ELSE u

\* Polygon(coords).exterior.coords: the ring, closed if coords was not
Closed(coords) ==
    IF coords[1] = coords[Len(coords)] THEN coords ELSE Append(coords, coords[1])

\* the least and the greatest coordinate k of the points lo..hi of coords
RECURSIVE MinOf(_, _, _, _)
MinOf(coords, k, lo, hi) ==
    IF lo = hi
    THEN coords[lo][k]
    ELSE LET mid == (lo + hi) \div 2
             low == MinOf(coords, k, lo, mid)
             high == MinOf(coords, k, mid + 1, hi)
         IN  GMin(low, high)
RECURSIVE MaxOf(_, _, _, _)
MaxOf(coords, k, lo, hi) ==
    IF lo = hi
    THEN coords[lo][k]
    ELSE LET mid == (lo + hi) \div 2
             low == MaxOf(coords, k, lo, mid)
             high == MaxOf(coords, k, mid + 1, hi)
         IN  GMax(low, high)

\* Polygon(coords).bounds
Bounds(coords) ==
    [minx |-> MinOf(coords, 1, 1, Len(coords)), miny |-> MinOf(coords, 2, 1, Len(coords)),
     maxx |-> MaxOf(coords, 1, 1, Len(coords)), maxy |-> MaxOf(coords, 2, 1, Len(coords))]

\* shapely's origin='center', the centre of the bounding box
BBoxCenter(coords) ==
    LET b == Bounds(coords)
    IN  <<GHalf(GAdd(b.minx, b.maxx)), GHalf(GAdd(b.miny, b.maxy))>>

\* shapely.affinity.rotate of one point about the centre c, counter-clockwise,
\* for a multiple of 45 degrees: c + R(p - c), R = (cos, -sin; sin, cos)
RotatePoint(p, c, rotation_deg) ==
    LET rx == GSub(p[1], c[1])
        ry == GSub(p[2], c[2])
        Around(tx, ty) == <<GAdd(c[1], tx), GAdd(c[2], ty)>>
    IN  CASE rotation_deg = 0   -> p
          [] rotation_deg = 45  -> Around(HalfRoot2(GSub(rx, ry)), HalfRoot2(GAdd(rx, ry)))
          [] rotation_deg = 90  -> Around(GNeg(ry), rx)
          [] rotation_deg = 135 -> Around(HalfRoot2(GNeg(GAdd(rx, ry))), HalfRoot2(GSub(rx, ry)))
          [] rotation_deg = 180 -> Around(GNeg(rx), GNeg(ry))
          [] rotation_deg = 225 -> Around(HalfRoot2(GSub(ry, rx)), HalfRoot2(GNeg(GAdd(rx, ry))))
          [] rotation_deg = 270 -> Around(ry, GNeg(rx))
          [] rotation_deg = 315 -> Around(HalfRoot2(GAdd(rx, ry)), HalfRoot2(GSub(ry, rx)))

\* transform_coordinates(coords, dx, dy, rotation_deg): translate, then rotate
\* about the centre of the translated polygon (scaling_factor stays 1.0)
transform_coordinates(coords, dx, dy, rotation_deg) ==
    LET ring == Closed(coords)
        moved == [i \in DOMAIN ring |-> <<GAdd(ring[i][1], dx), GAdd(ring[i][2], dy)>>]
        c == BBoxCenter(moved)
    IN  [i \in DOMAIN moved |-> RotatePoint(moved[i], c, rotation_deg)]

\* BattleshipModel.setup: the hull outline of lines 47-57, centred on (0, 0)
\* by line 59; the lengths are in units of 0.00001 m
battleship_geometry ==
    LET width == 20 * 100000
        length == 154 * 100000
        Tenths(n, k) == (n \div 10) * k
        Hundredths(n, k) == (n \div 100) * k
        Thousandths(n, k) == (n \div 1000) * k
    IN  transform_coordinates(
            << <<Lifted(Half(width)),       Lifted(length)>>,
               <<Lifted(Tenths(width, 8)),  Lifted(Hundredths(length, 87))>>,
               <<Lifted(width),             Lifted(Thousandths(length, 375))>>,
               <<Lifted(Tenths(width, 9)),  Lifted(Hundredths(length, 15))>>,
               <<Lifted(Tenths(width, 8)),  Lifted(0)>>,
               <<Lifted(Tenths(width, 2)),  Lifted(0)>>,
               <<Lifted(Tenths(width, 1)),  Lifted(Hundredths(length, 15))>>,
               <<Lifted(0),                 Lifted(Thousandths(length, 375))>>,
               <<Lifted(Tenths(width, 2)),  Lifted(Hundredths(length, 87))>> >>,
            Lifted(-Half(width)), Lifted(-Half(length)), 0)

\* a safety margin that is not built around the hull: the hull's outline moved
\* 1000 m along x
SafetyMarginMisplaced ==
    [i \in DOMAIN battleship_geometry |->
        <<GAdd(battleship_geometry[i][1], Fixed(Num(1000))), battleship_geometry[i][2]>>]

\* BattleshipModel.calculate_min_safe_distance_area: the exterior ring of the
\* hull buffered by MINIMUM_SAFE_DISTANCE = 100 (round joins of 16 segments
\* per quarter circle, clockwise from the join at the hull's vertex
\* (-6, 56.98)), in units of 0.00001 m
BufferedHull ==
    <<
       <<-9579053, 10570845>>, <<-9250559, 11498311>>, <<-8832510, 12389005>>,
       <<-8328953, 13234306>>, <<-7744764, 14026028>>, <<-7085597, 14756508>>,
       <<-6357835, 15418674>>, <<-5568523, 16006116>>, <<-4725301, 16513145>>,
       <<-3836334, 16934855>>, <<-2910227, 17267161>>, <<-1955946, 17506848>>,
       <<-982730, 17651595>>, <<0, 17700000>>, <<982730, 17651595>>,
       <<1955946, 17506848>>, <<2910227, 17267161>>, <<3836334, 16934855>>,
       <<4725301, 16513145>>, <<5568523, 16006116>>, <<6357835, 15418674>>,
       <<7085597, 14756508>>, <<7744764, 14026028>>, <<8328953, 13234306>>,
       <<8832510, 12389005>>, <<9250559, 11498311>>, <<9579053, 10570845>>,
       <<10179053, 8568845>>, <<10452781, 7407593>>, <<10586261, 6222007>>,
       <<10986261, -1400993>>, <<10983383, -2501241>>, <<10783383, -5966241>>,
       <<10762729, -6252574>>, <<10562729, -8562574>>, <<10428761, -9542678>>,
       <<10198613, -10504750>>, <<9874539, -11439376>>, <<9459708, -12337411>>,
       <<8958180, -13190066>>, <<8374863, -13988998>>, <<7715466, -14726389>>,
       <<6986440, -15395024>>, <<6194919, -15988358>>, <<5348649, -16500587>>,
       <<4455911, -16926697>>, <<3525442, -17262520>>, <<2566345, -17504769>>,
       <<1588007, -17651072>>, <<600000, -17700000>>, <<-600000, -17700000>>,
       <<-1588007, -17651072>>, <<-2566345, -17504769>>, <<-3525442, -17262520>>,
       <<-4455911, -16926697>>, <<-5348649, -16500587>>, <<-6194919, -15988358>>,
       <<-6986440, -15395024>>, <<-7715466, -14726389>>, <<-8374863, -13988998>>,
       <<-8958180, -13190066>>, <<-9459708, -12337411>>, <<-9874539, -11439376>>,
       <<-10198613, -10504750>>, <<-10428761, -9542678>>, <<-10562729, -8562574>>,
       <<-10762729, -6252574>>, <<-10783383, -5966241>>, <<-10983383, -2501241>>,
       <<-10986261, -1400993>>, <<-10586261, 6222007>>, <<-10452781, 7407593>>,
       <<-10179053, 8568845>>, <<-9579053, 10570845>>
    >>

minimum_safe_area_geometry ==
    [i \in DOMAIN BufferedHull |-> <<Lifted(BufferedHull[i][1]), Lifted(BufferedHull[i][2])>>]

\* World.__init__: the obstacle rings
obstacles ==
    << << <<Fixed(Num(260)), Fixed(Num(320))>>, <<Fixed(Num(365)), Fixed(Num(350))>>,
          <<Fixed(Num(270)), Fixed(Num(440))>>, <<Fixed(Num(260)), Fixed(Num(320))>> >> >>

\* the side of the line from a to b on which c lies: 1 left, -1 right, 0 on
\* it; the sign of (b - a) x (c - a) = p + q * sqrt(2)
Orientation(a, b, c) ==
    LET ux == GSub(b[1], a[1])
        uy == GSub(b[2], a[2])
        vx == GSub(c[1], a[1])
        vy == GSub(c[2], a[2])
        Product(m, n) == LongMul(Long(m), Long(n))
        p == LongSub(LongAdd(Product(ux[1], vy[1]), LongTwice(Product(ux[2], vy[2]))),
                     LongAdd(Product(uy[1], vx[1]), LongTwice(Product(uy[2], vx[2]))))
        q == LongSub(LongAdd(Product(ux[1], vy[2]), Product(ux[2], vy[1])),
                     LongAdd(Product(uy[1], vx[2]), Product(uy[2], vx[1])))
        sp == LongSign(p)
        sq == LongSign(q)
    IN  IF sp = 0 \/ sq = 0 \/ sp = sq
        THEN RootSign(sp, sq, 0)
        ELSE LET pc == Carried(p, 0)
                 qc == Carried(q, 0)
             IN  RootSign(sp, sq,
                          LongSign(LongSub(LongMul(pc, pc), LongTwice(LongMul(qc, qc)))))

\* c lies in the bounding box of the segment from a to b
InBox(a, b, c) ==
    /\ GLeq(GMin(a[1], b[1]), c[1])
    /\ GLeq(c[1], GMax(a[1], b[1]))
    /\ GLeq(GMin(a[2], b[2]), c[2])
    /\ GLeq(c[2], GMax(a[2], b[2]))

\* the bounding boxes of the segments a-b and c-d have a point in common
BoxesMeet(a, b, c, d) ==
    /\ GLeq(GMin(a[1], b[1]), GMax(c[1], d[1]))
    /\ GLeq(GMin(c[1], d[1]), GMax(a[1], b[1]))
    /\ GLeq(GMin(a[2], b[2]), GMax(c[2], d[2]))
    /\ GLeq(GMin(c[2], d[2]), GMax(a[2], b[2]))

\* the closed segments a-b and c-d have a point in common, given the sides
\* s1, s2 of c and d to the line a-b and the sides s3, s4 of a and b to the
\* line c-d
Straddle(a, b, c, d, s1, s2, s3, s4) ==
    \/ s1 * s2 < 0 /\ s3 * s4 < 0
    \/ s1 = 0 /\ InBox(a, b, c)
    \/ s2 = 0 /\ InBox(a, b, d)
    \/ s3 = 0 /\ InBox(c, d, a)
    \/ s4 = 0 /\ InBox(c, d, b)

\* the closed segments a-b and c-d have a point in common
SegmentsIntersect(a, b, c, d) ==
    /\ BoxesMeet(a, b, c, d)
    /\ Straddle(a, b, c, d, Orientation(a, b, c), Orientation(a, b, d),
                Orientation(c, d, a), Orientation(c, d, b))

\* p lies inside the ring: the half-line from p towards +x crosses an odd
\* number of its edges
PointInRing(p, ring) ==
    LET Crossed(i) ==
            LET a == ring[i]
                b == ring[i + 1]
            IN  /\ GLess(p[2], a[2]) # GLess(p[2], b[2])
                /\ \/ GLess(a[2], b[2]) /\ Orientation(a, b, p) > 0
                   \/ GLess(b[2], a[2]) /\ Orientation(a, b, p) < 0
    IN  Cardinality({i \in 1..(Len(ring) - 1) : Crossed(i)}) % 2 = 1

\* the bounding boxes of two rings have a point in common
EnvelopesMeet(b1, b2) ==
    /\ GLeq(b1.minx, b2.maxx) /\ GLeq(b2.minx, b1.maxx)
    /\ GLeq(b1.miny, b2.maxy) /\ GLeq(b2.miny, b1.maxy)

\* the edges of ring whose bounding box has a point in common with the box b
EdgesNear(ring, b) ==
    {i \in 1..(Len(ring) - 1) :
        /\ GLeq(GMin(ring[i][1], ring[i + 1][1]), b.maxx)
        /\ GLeq(b.minx, GMax(ring[i][1], ring[i + 1][1]))
        /\ GLeq(GMin(ring[i][2], ring[i + 1][2]), b.maxy)
        /\ GLeq(b.miny, GMax(ring[i][2], ring[i + 1][2]))}

\* polygons_intersect: Polygon(p1).intersects(Polygon(p2)), touching included.
\* Two simple polygons have a point in common exactly when two of their edges
\* do or one of them lies inside the other; none of that happens when their
\* bounding boxes are apart, and an edge meets the other polygon's edges only
\* within that polygon's bounding box.
polygons_intersect(polygon1_coords, polygon2_coords) ==
    LET polygon1 == Closed(polygon1_coords)
        polygon2 == Closed(polygon2_coords)
        bounds1 == Bounds(polygon1)
        bounds2 == Bounds(polygon2)
    IN  /\ EnvelopesMeet(bounds1, bounds2)
        /\ \/ \E i \in EdgesNear(polygon1, bounds2) : \E j \in EdgesNear(polygon2, bounds1) :
                  SegmentsIntersect(polygon1[i], polygon1[i + 1],
                                    polygon2[j], polygon2[j + 1])
           \/ PointInRing(polygon1[1], polygon2)
           \/ PointInRing(polygon2[1], polygon1)

\* BattleshipModel.update lines 74-80: a ship-frame polygon placed at pose
\* (px, py, pangle) intersects one of the obstacles obs
IntersectsObstacle(geometry, obs, px, py, pangle) ==
    LET current_geometry == transform_coordinates(geometry, Fixed(px), Fixed(py), pangle)
    IN  \E k \in DOMAIN obs : polygons_intersect(current_geometry, obs[k])

\* the two flags at pose (px, py, pangle), for the polygons setup computed
CollisionWarningAt(px, py, pangle) ==
    IntersectsObstacle(minimum_safe_area_geometry, obstacles, px, py, pangle)

CollisionEventAt(px, py, pangle) ==
    IntersectsObstacle(battleship_geometry, obstacles, px, py, pangle)

\* BattleshipModel.setup: the two ship-frame polygons the model stores
SetupGeometry ==
    [battleship_geometry |-> battleship_geometry,
     minimum_safe_area_geometry |-> minimum_safe_area_geometry]

----------------------------------------------------------------------------
(* Subsystems: BattleshipSystem.py *)

\* the subsystem objects a caller constructs (main.py lines 21-28, and a
\* second Engine object)
Objects == {"rudder", "engine", "engine2", "weapons", "navigation"}
EngineObjects == {"engine", "engine2"}

ClassOf(o) ==
    CASE o = "rudder" -> "Rudder"
      [] o \in EngineObjects -> "Engine"
      [] o = "weapons" -> "Weapons"
      [] o = "navigation" -> "Navigation"

\* BattleshipSystem.name: main.py names each object after its class
NameOf(o) == ClassOf(o)

\* <Class>.commands()
commands(o) ==
    CASE ClassOf(o) = "Rudder" -> <<"TURN_RIGHT", "TURN_LEFT">>
      [] ClassOf(o) = "Engine" -> <<"SET_SPEED">>
      [] ClassOf(o) = "Weapons" -> <<"FIRE">>
      [] ClassOf(o) = "Navigation" -> <<"ADD_WAYPOINT">>

\* Engine.setup; acceleration = .5 is acceleration_num / acceleration_den
min_speed == 0
max_speed == 15
acceleration_num == 1
acceleration_den == 2
initial_desired_speed == 15

Min(a, b) == IF a < b THEN a ELSE b

\* set_speed that tests only the lower limit
SetSpeedNoUpperLimit(desired, new_speed) ==
    IF min_speed <= new_speed THEN new_speed ELSE desired

\* set_speed without the range test
SetSpeedUnchecked(desired, new_speed) == new_speed

\* Engine.set_speed: the new value of desired_speed
set_speed(desired, new_speed) ==
    IF min_speed <= new_speed /\ new_speed <= max_speed THEN new_speed ELSE desired

\* Engine.update that ramps down to 0 in a collision instead of stopping
EngineUpdateRampsToStop(in_collision_event, speed, desired, dt) ==
    LET target == IF in_collision_event THEN 0 ELSE desired
        acceleration_change ==
            Min((acceleration_num * dt) \div acceleration_den, Abs(target - speed))
    IN  IF target > speed THEN speed + acceleration_change ELSE speed - acceleration_change

\* Engine.update whose ramp stops one short of desired_speed
EngineUpdateStopsShort(in_collision_event, speed, desired, dt) ==
    IF ~in_collision_event
    THEN IF speed # desired
         THEN LET speed_difference == desired - speed
                  acceleration_change ==
                      Min((acceleration_num * dt) \div acceleration_den,
                          Abs(speed_difference) - 1)
              IN  IF speed_difference > 0
                  THEN speed + acceleration_change
                  ELSE speed - acceleration_change
         ELSE speed
    ELSE 0

\* Engine.update without the min() that stops the ramp at desired_speed
EngineUpdateUnclamped(in_collision_event, speed, desired, dt) ==
    IF ~in_collision_event
    THEN IF speed # desired
         THEN LET acceleration_change == (acceleration_num * dt) \div acceleration_den
              IN  IF desired - speed > 0
                  THEN speed + acceleration_change
                  ELSE speed - acceleration_change
         ELSE speed
    ELSE 0

\* Engine.update: the new value of model.current_speed
EngineUpdate(in_collision_event, speed, desired, dt) ==
    IF ~in_collision_event
    THEN IF speed # desired
         THEN LET speed_difference == desired - speed
                  acceleration_change ==
                      Min((acceleration_num * dt) \div acceleration_den, Abs(speed_difference))
              IN  IF speed_difference > 0
                  THEN speed + acceleration_change
                  ELSE speed - acceleration_change
         ELSE speed
    ELSE 0

\* Navigation.update: the new value of projected_path
NavigationUpdate(px, py, wps) == <<<<px, py>>>> \o wps

\* dict helpers for systems (a sequence of <<key, value>> in insertion order)
HasKey(d, k) == \E i \in DOMAIN d : d[i][1] = k
Lookup(d, k) == d[CHOOSE i \in DOMAIN d : d[i][1] = k][2]
SetItem(d, k, v) ==
    IF HasKey(d, k)
    THEN [i \in DOMAIN d |-> IF d[i][1] = k THEN <<k, v>> ELSE d[i]]
    ELSE Append(d, <<k, v>>)
Values(d) == {d[i][2] : i \in DOMAIN d}

\* <Class>.handle_command(command, *args) called on object o.  m is the
\* program state; the result is the program state after the call.
\*   Engine: SET_SPEED -> set_speed(*args) (TypeError unless one argument)
\*   Navigation: ADD_WAYPOINT -> self.set_waypoint, which is not defined
\*   Rudder / Weapons: handle_command(self, command) takes no further
\*       argument; turn_right / turn_left read the attribute "angle" of
\*       systems[self.name], which no subsystem has
SystemHandleCommand(m, o, command, args) ==
    CASE ClassOf(o) = "Engine" ->
            IF command = "SET_SPEED"
            THEN IF Len(args) # 1
                 THEN [m EXCEPT !.fault = "TypeError"]
                 ELSE [m EXCEPT !.desired_speed[o] = set_speed(m.desired_speed[o], args[1])]
            ELSE m
      [] ClassOf(o) = "Navigation" ->
            IF command = "ADD_WAYPOINT" THEN [m EXCEPT !.fault = "AttributeError"] ELSE m
      [] ClassOf(o) = "Rudder" ->
            IF Len(args) > 0 THEN [m EXCEPT !.fault = "TypeError"]
            ELSE IF command \in {"TURN_RIGHT", "TURN_LEFT"}
                 THEN IF HasKey(m.systems, NameOf(o))
                      THEN [m EXCEPT !.fault = "AttributeError"]
                      ELSE [m EXCEPT !.fault = "KeyError"]
                 ELSE m
      [] ClassOf(o) = "Weapons" ->
            IF Len(args) > 0 THEN [m EXCEPT !.fault = "TypeError"] ELSE m

----------------------------------------------------------------------------
(* BattleshipModel *)

\* the registration loop that hands an already registered token to the new
\* object instead of raising
RECURSIVE RegisterCommandsOverwriting(_, _, _)
RegisterCommandsOverwriting(m, cmds, o) ==
    IF cmds = <<>>
    THEN m
    ELSE RegisterCommandsOverwriting(
             [m EXCEPT !.command_registry =
                  [c \in DOMAIN m.command_registry \cup {Head(cmds)} |->
                      IF c = Head(cmds) THEN o ELSE m.command_registry[c]]],
             Tail(cmds), o)

\* the for loop of attach_system (lines 144-147) over the commands left
RECURSIVE RegisterCommands(_, _, _)
RegisterCommands(m, cmds, o) ==
    IF cmds = <<>>
    THEN m
    ELSE IF Head(cmds) \in DOMAIN m.command_registry
         THEN [m EXCEPT !.fault = "KeyError"]
         ELSE RegisterCommands(
                  [m EXCEPT !.command_registry = m.command_registry @@ (Head(cmds) :> o)],
                  Tail(cmds), o)

\* BattleshipModel.attach_system(system_name, system)
attach_system(m, system_name, o) ==
    RegisterCommands([m EXCEPT !.systems = SetItem(m.systems, system_name, o)],
                     commands(o), o)

\* handle_command that indexes the registry instead of using .get()
HandleCommandStrict(m, command, args) ==
    IF Len(args) > 0
    THEN [m EXCEPT !.fault = "TypeError"]
    ELSE IF command \in DOMAIN m.command_registry
         THEN SystemHandleCommand(m, m.command_registry[command], command, <<>>)
         ELSE [m EXCEPT !.fault = "KeyError"]

\* BattleshipModel.handle_command(command), called with the positional
\* arguments args: the method takes the command alone
handle_command(m, command, args) ==
    IF Len(args) > 0
    THEN [m EXCEPT !.fault = "TypeError"]
    ELSE IF command \in DOMAIN m.command_registry
         THEN SystemHandleCommand(m, m.command_registry[command], command, <<>>)
         ELSE m                       \* prints a warning

\* the data fields read by name in the model: of BattleshipModel.__init__ and
\* setup, and of the subsystem objects
AttributeNames ==
    {"x", "y", "angle", "current_speed", "collision_warning", "collision_event",
     "desired_speed", "min_speed", "max_speed", "waypoints", "projected_path",
     "name"}

\* BattleshipModel.get_attribute(system_name, attr_name), attr_name in
\* AttributeNames: getattr(self.systems[system_name], attr_name)
get_attribute(m, system_name, attr_name) ==
    IF ~HasKey(m.systems, system_name)
    THEN [fault |-> "KeyError"]
    ELSE LET o == Lookup(m.systems, system_name) IN
         CASE attr_name = "name" -> [fault |-> "none", value |-> NameOf(o)]
           [] ClassOf(o) = "Engine" /\ attr_name = "desired_speed" ->
                 [fault |-> "none", value |-> m.desired_speed[o]]
           [] ClassOf(o) = "Engine" /\ attr_name = "min_speed" ->
                 [fault |-> "none", value |-> min_speed]
           [] ClassOf(o) = "Engine" /\ attr_name = "max_speed" ->
                 [fault |-> "none", value |-> max_speed]
           [] ClassOf(o) = "Navigation" /\ attr_name = "waypoints" ->
                 [fault |-> "none", value |-> m.waypoints]
           [] ClassOf(o) = "Navigation" /\ attr_name = "projected_path" ->
                 [fault |-> "none", value |-> m.projected_path]
           [] OTHER -> [fault |-> "AttributeError"]

\* BattleshipModel.set_attribute(system_name, attr_name, value): line 110
\* reads self.attributes, which __init__ never creates
set_attribute(m, system_name, attr_name, value) == [m EXCEPT !.fault = "AttributeError"]

\* variable_name.split(":", maxsplit = 1) of the keys used: <<name>> for a
\* ship-level key, <<system_name, variable_name>> for a compound key
SplitKey(variable_name) ==
    CASE variable_name = "x" -> <<"x">>
      [] variable_name = "angle" -> <<"angle">>
      [] variable_name = "current_speed" -> <<"current_speed">>
      [] variable_name = "collision_event" -> <<"collision_event">>
      [] variable_name = "Engine:desired_speed" -> <<"Engine", "desired_speed">>
      [] variable_name = "Rudder:angle" -> <<"Rudder", "angle">>

\* BattleshipController.model_set(variable_name, value)
model_set(m, variable_name, value) ==
    LET key == SplitKey(variable_name) IN
    IF Len(key) = 1
    THEN [m EXCEPT ![key[1]] = value]                   \* setattr
    ELSE set_attribute(m, key[1], key[2], value)

\* BattleshipController.model_get(variable_name)
model_get(m, variable_name) ==
    LET key == SplitKey(variable_name) IN
    IF Len(key) = 1
    THEN [fault |-> "none", value |-> m[key[1]]]        \* getattr
    ELSE get_attribute(m, key[1], key[2])

\* system.update(timedelta) of one attached object
SystemUpdate(m, o, dt) ==
    CASE ClassOf(o) = "Engine" ->
            [m EXCEPT !.current_speed =
                EngineUpdate(m.collision_event, m.current_speed, m.desired_speed[o], dt)]
      [] ClassOf(o) = "Navigation" ->
            [m EXCEPT !.projected_path = NavigationUpdate(m.x, m.y, m.waypoints)]
      [] OTHER -> m

\* for system in self.systems.values(): system.update(timedelta), from index i
RECURSIVE UpdateSystems(_, _, _)
UpdateSystems(m, i, dt) ==
    IF i > Len(m.systems)
    THEN m
    ELSE UpdateSystems(SystemUpdate(m, m.systems[i][2], dt), i + 1, dt)

\* lines 86-87 when the follower's call ended as r: the last pose is kept,
\* then the tuple r is assigned; a raise leaves the list as the call left it
StorePose(m, r) ==
    LET kept == [m EXCEPT !.last_x = m.x, !.last_y = m.y, !.last_angle = m.angle]
    IN  IF r.fault # "none"
        THEN [kept EXCEPT !.waypoints = r.path, !.fault = r.fault]
        ELSE [kept EXCEPT !.x = r.x, !.y = r.y, !.angle = r.angle,
                          !.waypoints = r.path]

\* lines 85-87: the path advance
AdvancePath(m, dt) ==
    IF ~HasKey(m.systems, "Navigation")
    THEN [m EXCEPT !.fault = "KeyError"]
    ELSE IF Len(m.waypoints) > 0
         THEN StorePose(m, update_path_coordinates_with_angle(m.waypoints, m.current_speed, dt))
         ELSE m

\* the collision flags, with the transformed polygons stored back into the
\* ship-frame fields
UpdateCollisionFlagsInPlace(m) ==
    [m EXCEPT !.collision_warning = CollisionWarningAt(m.x, m.y, m.angle),
              !.collision_event = CollisionEventAt(m.x, m.y, m.angle),
              !.ship_geometry =
                  [battleship_geometry |->
                       transform_coordinates(m.ship_geometry.battleship_geometry,
                                             Fixed(m.x), Fixed(m.y), m.angle),
                   minimum_safe_area_geometry |->
                       transform_coordinates(m.ship_geometry.minimum_safe_area_geometry,
                                             Fixed(m.x), Fixed(m.y), m.angle)]]

\* lines 72-80: the collision flags at the current pose
UpdateCollisionFlags(m) ==
    [m EXCEPT !.collision_warning =
                  IntersectsObstacle(m.ship_geometry.minimum_safe_area_geometry,
                                     m.world_obstacles, m.x, m.y, m.angle),
              !.collision_event =
                  IntersectsObstacle(m.ship_geometry.battleship_geometry,
                                     m.world_obstacles, m.x, m.y, m.angle)]

\* update that advances the path before it updates the subsystems
ModelUpdateAdvancesFirst(m, dt) == UpdateSystems(AdvancePath(UpdateCollisionFlags(m), dt), 1, dt)

\* update that computes the collision flags after the path advance
ModelUpdateFlagsAfterMotion(m, dt) == UpdateCollisionFlags(AdvancePath(UpdateSystems(m, 1, dt), dt))

\* BattleshipModel.update(timedelta)
model_update(m, dt) == AdvancePath(UpdateSystems(UpdateCollisionFlags(m), 1, dt), dt)

\* World.update that stores the step in total_time instead of adding it
WorldUpdateOverwritesTotalTime(m, dt) ==
    model_update([m EXCEPT !.total_time = dt, !.timedelta = dt], dt)

\* World.update(timedelta)
world_update(m, dt) ==
    model_update([m EXCEPT !.total_time = m.total_time + dt, !.timedelta = dt], dt)

\* BattleshipController.update after self.world.update(timedelta) left the
\* state w: the row is logged and a collision event ends the simulation
LogAndCheck(w) ==
    IF w.fault # "none"
    THEN w
    ELSE IF w.logger_closed
         THEN [w EXCEPT !.fault = "ValueError"]      \* write to a closed file
         ELSE LET logged == [w EXCEPT !.log_rows = w.log_rows + 1]
              IN  IF logged.collision_event
                  THEN [logged EXCEPT !.simulation_running = FALSE, !.logger_closed = TRUE]
                  ELSE logged

\* BattleshipController.update(timedelta)
controller_update(m, dt) == LogAndCheck(world_update(m, dt))

\* on_update without the test of simulation_running
OnUpdateUnguarded(m, dt) == controller_update(m, dt)

\* BattleshipView.on_update(timedelta), lines 100-101
on_update(m, dt) == IF m.simulation_running THEN controller_update(m, dt) ELSE m

\* BattleshipController.handle_action(action): self.model is never assigned
handle_action(m, action) == [m EXCEPT !.fault = "AttributeError"]

\* Navigation.add_waypoint(x, y)
add_waypoint(m, px, py) == [m EXCEPT !.waypoints = Append(m.waypoints, <<px, py>>)]

----------------------------------------------------------------------------
(* Spec: the assembled program *)

\* the program state as one record, with the outcome of the call in fault
State ==
    [x |-> x, y |-> y, angle |-> angle,
     last_x |-> last_x, last_y |-> last_y, last_angle |-> last_angle,
     current_speed |-> current_speed,
     collision_warning |-> collision_warning, collision_event |-> collision_event,
     ship_geometry |-> ship_geometry, world_obstacles |-> world_obstacles,
     systems |-> systems, command_registry |-> command_registry,
     desired_speed |-> desired_speed, waypoints |-> waypoints,
     projected_path |-> projected_path,
     total_time |-> total_time, timedelta |-> timedelta,
     simulation_running |-> simulation_running, log_rows |-> log_rows,
     logger_closed |-> logger_closed,
     fault |-> "none"]

\* the program state becomes m
Becomes(m) ==
    /\ x' = m.x /\ y' = m.y /\ angle' = m.angle
    /\ last_x' = m.last_x /\ last_y' = m.last_y /\ last_angle' = m.last_angle
    /\ current_speed' = m.current_speed
    /\ collision_warning' = m.collision_warning
    /\ collision_event' = m.collision_event
    /\ ship_geometry' = m.ship_geometry
    /\ world_obstacles' = m.world_obstacles
    /\ systems' = m.systems
    /\ command_registry' = m.command_registry
    /\ desired_speed' = m.desired_speed
    /\ waypoints' = m.waypoints
    /\ projected_path' = m.projected_path
    /\ total_time' = m.total_time /\ timedelta' = m.timedelta
    /\ simulation_running' = m.simulation_running
    /\ log_rows' = m.log_rows
    /\ logger_closed' = m.logger_closed
    /\ fault' = m.fault

\* main.py line 30: the waypoint list the program sails
main_waypoints == <<Point(200, 200), Point(400, 400), Point(100, 400), Point(150, 150)>>

\* waypoints added later: two points under the obstacle
WaypointChoices == {Point(300, 320), Point(300, 330)}

\* arguments tried with SET_SPEED
SpeedArgs == {min_speed - 1, min_speed, max_speed, max_speed + 1}

Tokens == {"TURN_RIGHT", "TURN_LEFT", "SET_SPEED", "FIRE", "ADD_WAYPOINT", "DIVE"}

\* the command calls tried: every token alone, SET_SPEED with one argument,
\* ADD_WAYPOINT with two
CommandCalls ==
    {<<t, <<>>>> : t \in Tokens} \cup {<<"SET_SPEED", <<v>>>> : v \in SpeedArgs}
        \cup {<<"ADD_WAYPOINT", p>> : p \in WaypointChoices}

\* the time steps of the view updates: none; a short one (30 m at full
\* speed); one that takes the ship at full speed 150 m along the first leg;
\* one in which the ship at full speed covers more than the whole of
\* main.py's route
DtValues == {0, 2, 10, 60}

NoCallYet == [op |-> "none"]

\* BattleshipModel.__init__, World.__init__ and attach_model, the subsystem
\* constructors, and BattleshipController.__init__ (which logs one row)
Constructed ==
    /\ x = Num(0) /\ y = Num(0) /\ angle = 90
    /\ last_x = Num(0) /\ last_y = Num(0) /\ last_angle = 90
    /\ current_speed = 0
    /\ collision_warning = FALSE
    /\ collision_event = FALSE
    /\ ship_geometry = SetupGeometry
    /\ world_obstacles = obstacles
    /\ systems = <<>>
    /\ command_registry = <<>>
    /\ desired_speed = [o \in EngineObjects |-> initial_desired_speed]
    /\ waypoints = <<>>
    /\ projected_path = <<>>
    /\ total_time = 0
    /\ timedelta = 0
    /\ simulation_running = TRUE
    /\ log_rows = 1
    /\ logger_closed = FALSE
    /\ call = NoCallYet
    /\ fault = "none"

\* the state Constructed as a record
ConstructedState ==
    [x |-> Num(0), y |-> Num(0), angle |-> 90,
     last_x |-> Num(0), last_y |-> Num(0), last_angle |-> 90,
     current_speed |-> 0, collision_warning |-> FALSE, collision_event |-> FALSE,
     ship_geometry |-> SetupGeometry, world_obstacles |-> obstacles,
     systems |-> <<>>, command_registry |-> <<>>,
     desired_speed |-> [o \in EngineObjects |-> initial_desired_speed],
     waypoints |-> <<>>, projected_path |-> <<>>,
     total_time |-> 0, timedelta |-> 0,
     simulation_running |-> TRUE, log_rows |-> 1, logger_closed |-> FALSE,
     fault |-> "none"]

\* main.py line 19: model.current_speed = 15
main_current_speed == 15

\* main.py lines 20-28: the four subsystems attached in this order
RECURSIVE AttachAll(_, _)
AttachAll(m, objs) ==
    IF objs = <<>> THEN m
    ELSE AttachAll(attach_system(m, NameOf(Head(objs)), Head(objs)), Tail(objs))

\* main.py lines 15-28: the world, the ship, its speed and its subsystems
MainAssembly ==
    AttachAll([ConstructedState EXCEPT !.current_speed = main_current_speed],
              <<"rudder", "engine", "weapons", "navigation">>)

\* main.py lines 33-34: for waypoint in waypoints: add_waypoint(*waypoint)
RECURSIVE AddWaypoints(_, _)
AddWaypoints(m, wps) ==
    IF wps = <<>> THEN m
    ELSE AddWaypoints(add_waypoint(m, Head(wps)[1], Head(wps)[2]), Tail(wps))

\* main.py lines 31-34 for the list wps: the ship is put on the first point
\* and every point of the list is appended to the Navigation waypoints
load_waypoints(m, wps) ==
    AddWaypoints([m EXCEPT !.x = wps[1][1], !.y = wps[1][2]], wps)

\* main.py lines 15-38: the ship on the first waypoint of its list, the list
\* loaded, the controller constructed
MainProgram == load_waypoints(MainAssembly, main_waypoints)

\* the program state is m
StateIs(m) ==
    /\ x = m.x /\ y = m.y /\ angle = m.angle
    /\ last_x = m.last_x /\ last_y = m.last_y /\ last_angle = m.last_angle
    /\ current_speed = m.current_speed
    /\ collision_warning = m.collision_warning
    /\ collision_event = m.collision_event
    /\ ship_geometry = m.ship_geometry
    /\ world_obstacles = m.world_obstacles
    /\ systems = m.systems
    /\ command_registry = m.command_registry
    /\ desired_speed = m.desired_speed
    /\ waypoints = m.waypoints
    /\ projected_path = m.projected_path
    /\ total_time = m.total_time /\ timedelta = m.timedelta
    /\ simulation_running = m.simulation_running
    /\ log_rows = m.log_rows
    /\ logger_closed = m.logger_closed
    /\ fault = m.fault

\* the state main.py has reached when it calls arcade.run() (line 39)
ShipInit ==
    /\ StateIs(MainProgram)
    /\ call = NoCallYet

\* an exception that left BattleshipView.on_update ends arcade.run()
Crashed == call.op = "on_update" /\ fault # "none"

AttachSystem(o) ==
    /\ ~Crashed
    /\ Becomes(attach_system(State, NameOf(o), o))
    /\ call' = [op |-> "attach_system", system |-> o]

HandleCommand(command, args) ==
    /\ ~Crashed
    /\ Becomes(handle_command(State, command, args))
    /\ call' = [op |-> "handle_command", command |-> command, args |-> args]

HandleAction(command) ==
    /\ ~Crashed
    /\ Becomes(handle_action(State, command))
    /\ call' = [op |-> "handle_action", command |-> command]

\* a subsystem's handle_command called directly on an attached object
SystemCommand(o, command, args) ==
    /\ ~Crashed
    /\ o \in Values(systems)
    /\ Becomes(SystemHandleCommand(State, o, command, args))
    /\ call' = [op |-> "system.handle_command", system |-> o,
                command |-> command, args |-> args]

\* every leg of the list p has a length that is a number: the walk can
\* subtract it from the distance to cover
ExactLegs(p) == \A i \in 1..(Len(p) - 1) : ~IsRoot(SegmentLength(p[i], p[i + 1]))

\* Navigation.add_waypoint(x, y), given to a list whose legs the walk can pass
AddWaypoint(p) ==
    /\ ~Crashed
    /\ Len(waypoints) < MaxWaypoints
    /\ ExactLegs(Append(waypoints, p))
    /\ Becomes(add_waypoint(State, p[1], p[2]))
    /\ call' = [op |-> "add_waypoint", point |-> p]

OnUpdate(dt) ==
    /\ ~Crashed
    /\ log_rows <= MaxTicks
    /\ Becomes(on_update(State, dt))
    /\ call' = [op |-> "on_update", dt |-> dt]

\* Engine.update(timedelta) called on the attached Engine; the call record
\* keeps the speed the ship had when the call was made
EngineTick(dt) ==
    /\ ~Crashed
    /\ HasKey(systems, "Engine")
    /\ Becomes(SystemUpdate(State, Lookup(systems, "Engine"), dt))
    /\ call' = [op |-> "system.update", system |-> Lookup(systems, "Engine"),
                dt |-> dt, speed_before |-> current_speed]

\* BattleshipController.model_set("collision_event", value)
ModelSetCollisionEvent(value) ==
    /\ ~Crashed
    /\ Becomes([State EXCEPT !.collision_event = value])
    /\ call' = [op |-> "model_set", attribute |-> "collision_event", value |-> value]

\* controller.model_set(variable_name, value)
ModelSet(variable_name, value) ==
    /\ ~Crashed
    /\ Becomes(model_set(State, variable_name, value))
    /\ call' = [op |-> "model_set", key |-> variable_name, value |-> value]

\* controller.model_get(variable_name); the call record keeps what it returned
ModelGet(variable_name) ==
    /\ ~Crashed
    /\ Becomes([State EXCEPT !.fault = model_get(State, variable_name).fault])
    /\ call' = [op |-> "model_get", key |-> variable_name,
                result |-> model_get(State, variable_name)]

\* the program under arcade.run(): view updates, SET_SPEED given to the
\* Engine, waypoints added
ShipNext ==
    \/ \E dt \in DtValues : OnUpdate(dt)
    \/ \E v \in SpeedArgs : SystemCommand("engine", "SET_SPEED", <<v>>)
    \/ \E p \in WaypointChoices : AddWaypoint(p)

\* assembly and command dispatch: every object attached in every order, every
\* command call given to the ship, to the controller and to the attached objects
CommandNext ==
    \/ \E o \in Objects : AttachSystem(o)
    \/ \E c \in CommandCalls : HandleCommand(c[1], c[2])
    \/ \E t \in Tokens : HandleAction(t)
    \/ \E o \in Objects : \E c \in CommandCalls : SystemCommand(o, c[1], c[2])

----------------------------------------------------------------------------
(* PathSpec: the path follower applied to every bounded input *)

GridPoints == {Point(i, j) : i \in 0..GridMax, j \in 0..GridMax}

NoZeroLengthSegment(p) == \A i \in 1..(Len(p) - 1) : p[i] # p[i + 1]

PathsOfLen(n) == {p \in [1..n -> GridPoints] : ExactLegs(p)}
InputPaths == UNION {PathsOfLen(n) : n \in 0..MaxPathLen}

NoCall == [fault |-> "pending"]

\* the follower's arguments before any call
PathIdle ==
    /\ pf_pc = "call"
    /\ pf_path = <<>>
    /\ pf_speed = 0
    /\ pf_timedelta = 0
    /\ pf_result = NoCall

PathInit ==
    /\ Constructed
    /\ pf_pc = "call"
    /\ pf_path \in InputPaths
    /\ pf_speed \in 0..MaxPfSpeed
    /\ pf_timedelta \in 0..MaxPfDt
    /\ pf_result = NoCall

\* the call itself
PathCall ==
    /\ pf_pc = "call"
    /\ pf_result' = update_path_coordinates_with_angle(pf_path, pf_speed, pf_timedelta)
    /\ pf_pc' = "return"
    /\ UNCHANGED <<pf_path, pf_speed, pf_timedelta>>
    /\ UNCHANGED ship_vars

\* BattleshipModel.update lines 85-87 on the next tick: the path the call
\* returned is the waypoint list, and while it is not empty the follower is
\* called on it with that tick's current_speed and timedelta
PathCallAgain(speed, dt) ==
    /\ pf_pc = "return"
    /\ pf_result.fault = "none"
    /\ Len(pf_result.path) > 0
    /\ pf_path' = pf_result.path
    /\ pf_speed' = speed
    /\ pf_timedelta' = dt
    /\ pf_pc' = "call"
    /\ pf_result' = NoCall
    /\ UNCHANGED ship_vars

PathNext ==
    \/ PathCall
    \/ \E speed \in 0..MaxPfSpeed : \E dt \in 0..MaxPfDt : PathCallAgain(speed, dt)

vars == <<pf_vars, ship_vars>>

PathSpec == PathInit /\ [][PathNext]_vars

\* WalkSpec: the follower called tick after tick, as BattleshipModel.update
\* does, with a constant positive speed and a positive timedelta on a path of
\* length >= 2 that has no zero-length segment
WalkInit ==
    /\ PathInit
    /\ Len(pf_path) >= 2 /\ NoZeroLengthSegment(pf_path)
    /\ pf_speed > 0 /\ pf_timedelta > 0

\* the next tick of a ship that keeps its speed, with a timedelta > 0
WalkAgain == \E dt \in 1..MaxPfDt : PathCallAgain(pf_speed, dt)

WalkNext == PathCall \/ WalkAgain

WalkSpec == WalkInit /\ [][WalkNext]_vars

CommandInit == Constructed /\ PathIdle
CommandSpec == CommandInit /\ [][CommandNext /\ UNCHANGED pf_vars]_vars

Init == ShipInit /\ PathIdle
Next == ShipNext /\ UNCHANGED pf_vars
Spec == Init /\ [][Next]_vars

\* EngineSpec: the Engine of main.py's ship, ticked and commanded directly,
\* from every speed in and just outside [min_speed, max_speed]
EngineSpeeds == (min_speed - SpeedMargin)..(max_speed + SpeedMargin)
EngineDts == {2 * k : k \in 0..MaxEngineHalfDt}

EngineInit ==
    /\ \E v \in EngineSpeeds : StateIs([MainProgram EXCEPT !.current_speed = v])
    /\ call = NoCallYet
    /\ PathIdle

EngineNext ==
    \/ \E dt \in EngineDts : EngineTick(dt)
    \/ \E v \in EngineSpeeds : SystemCommand("engine", "SET_SPEED", <<v>>)
    \/ \E b \in BOOLEAN : ModelSetCollisionEvent(b)

EngineSpec == EngineInit /\ [][EngineNext /\ UNCHANGED pf_vars]_vars

\* AttributeSpec: the get/set-by-name surface of main.py's ship
AttributeKeys == {"x", "angle", "current_speed", "Engine:desired_speed", "Rudder:angle"}
AttributeValues == {0, 5, main_current_speed}

\* the value v as the attribute key holds it: a coordinate is a number
ValueFor(key, v) == IF key = "x" THEN Num(v) ELSE v

AttributeInit ==
    /\ StateIs(MainProgram)
    /\ call = NoCallYet
    /\ PathIdle

AttributeNext ==
    \/ \E k \in AttributeKeys : \E v \in AttributeValues : ModelSet(k, ValueFor(k, v))
    \/ \E k \in AttributeKeys : ModelGet(k)

AttributeSpec == AttributeInit /\ [][AttributeNext /\ UNCHANGED pf_vars]_vars

\* RampSpec: the Engine ticked again and again with timedelta > 0, with no
\* collision_event and no SET_SPEED after the one that chose desired_speed
RampInit ==
    /\ \E v \in EngineSpeeds : \E d \in EngineSpeeds :
           StateIs(SystemHandleCommand([MainProgram EXCEPT !.current_speed = v],
                                       "engine", "SET_SPEED", <<d>>))
    /\ call = NoCallYet
    /\ PathIdle

RampNext == \E dt \in EngineDts \ {0} : EngineTick(dt)

\* the view's clock keeps scheduling updates
RampSpec == RampInit /\ [][RampNext /\ UNCHANGED pf_vars]_vars
                     /\ WF_vars(RampNext /\ UNCHANGED pf_vars)

----------------------------------------------------------------------------
(* Claims about the path follower (checked under PathSpec) *)

Returned == pf_pc = "return"
DistanceToCover == Num(pf_speed * pf_timedelta)

HasZeroLengthSegment(p) == \E i \in 1..(Len(p) - 1) : p[i] = p[i + 1]

\* length of a segment parallel to an axis or to a diagonal, stated without
\* the follower's arithmetic
Span(a, b) ==
    LET width == NAbs(NSub(b[1], a[1]))
        height == NAbs(NSub(b[2], a[2]))
    IN  IF width = Num(0) \/ height = Num(0)
        THEN NAdd(width, height)
        ELSE NMul(Root2, width)

RECURSIVE TotalLength(_)
TotalLength(p) ==
    IF Len(p) < 2 THEN Num(0) ELSE NAdd(Span(p[1], p[2]), TotalLength(Tail(p)))

\* the segment <<from, to>> of p on which a walk of distance d ends
RECURSIVE EndSegment(_, _)
EndSegment(p, d) ==
    IF Len(p) > 2 /\ NLess(Span(p[1], p[2]), d)
    THEN EndSegment(Tail(p), NSub(d, Span(p[1], p[2])))
    ELSE <<p[1], p[2]>>

\* C1 (as claimed): for a path of length >= 2 without zero-length segments,
\* when speed*dt >= the total remaining length of the path the follower returns
\* the final waypoint of the path as the new position, and an empty path.
C1_ArrivalAtFinalWaypoint ==
    (Returned /\ Len(pf_path) >= 2 /\ NoZeroLengthSegment(pf_path)
              /\ NLeq(TotalLength(pf_path), DistanceToCover))
        => /\ pf_result.fault = "none"
           /\ pf_result.path = <<>>
           /\ <<pf_result.x, pf_result.y>> = pf_path[Len(pf_path)]

\* C2: when speed*dt is strictly less than the length of the first segment, the
\* new position is the point of the first segment at distance speed*dt from the
\* head, and the returned path is that position followed by the input path
\* without its head, unchanged and in order.
C2_PartialStep ==
    (Returned /\ Len(pf_path) >= 2
              /\ NLess(DistanceToCover, Span(pf_path[1], pf_path[2])))
        => /\ pf_result.fault = "none"
           /\ Span(pf_path[1], <<pf_result.x, pf_result.y>>) = DistanceToCover
           /\ Span(<<pf_result.x, pf_result.y>>, pf_path[2])
                  = NSub(Span(pf_path[1], pf_path[2]), DistanceToCover)
           /\ pf_result.path = <<<<pf_result.x, pf_result.y>>>> \o Tail(pf_path)

\* a partial step that moves, on a path with a waypoint after the first segment
C2_Witness ==
    /\ Returned /\ Len(pf_path) = 3 /\ pf_result.fault = "none"
    /\ NLess(Num(0), DistanceToCover)
    /\ NLess(DistanceToCover, Span(pf_path[1], pf_path[2]))
    /\ pf_path[3] # pf_path[2]
    /\ Len(pf_result.path) = 3

\* C3 (as claimed): when one or more leading segments are consumed during a
\* step, the returned facing is that of the segment on which the walk ends
\* (the final segment on arrival), not that of the first input segment.
C3_FacingOfEndSegment ==
    (Returned /\ Len(pf_path) > 2 /\ NoZeroLengthSegment(pf_path)
              /\ NLess(Span(pf_path[1], pf_path[2]), DistanceToCover))
        => /\ pf_result.fault = "none"
           /\ pf_result.angle = SegmentFacing(EndSegment(pf_path, DistanceToCover)[1],
                                              EndSegment(pf_path, DistanceToCover)[2])

\* C4 (as claimed): a path of length >= 2 that contains two identical
\* consecutive points is walked without a fault.
C4_ZeroLengthSegmentGuarded ==
    (Returned /\ Len(pf_path) >= 2 /\ HasZeroLengthSegment(pf_path))
        => pf_result.fault = "none"

\* C17 (as claimed): the facing the follower returns for a step that stays on
\* a non-degenerate first segment equals calculate_angle_degrees of that
\* segment's endpoints (north-zero: a segment pointing in +y has bearing 0).
C17_OneHeadingConvention ==
    (/\ Returned /\ Len(pf_path) >= 2 /\ pf_path[1] # pf_path[2]
     /\ NLess(DistanceToCover, Span(pf_path[1], pf_path[2])))
        => /\ pf_result.fault = "none"
           /\ pf_result.angle = calculate_angle_degrees(pf_path[1][1], pf_path[1][2],
                                                        pf_path[2][1], pf_path[2][2])

\* the leading points of pf_path the call dropped, and the distance left
\* after the segments they start
ConsumedPoints == Len(pf_path) - Len(pf_result.path)
LeftoverDistance ==
    NSub(DistanceToCover, TotalLength(SubSeq(pf_path, 1, ConsumedPoints + 1)))

\* C20 (as claimed): when the follower returns a path with more than two
\* points, the distance left over is strictly less than the length of the
\* segment now at the head; a step that lands exactly on an intermediate
\* waypoint consumes it, so the returned path does not begin with that
\* waypoint twice.
C20_WalkStopCondition ==
    (/\ Returned /\ NoZeroLengthSegment(pf_path)
     /\ pf_result.fault = "none" /\ Len(pf_result.path) > 2)
        => /\ NLess(LeftoverDistance,
                    Span(pf_path[ConsumedPoints + 1], pf_path[ConsumedPoints + 2]))
           /\ pf_result.path[1] # pf_result.path[2]

\* C22 (as claimed, the part every tick must satisfy; checked under WalkSpec):
\* on the way to arrival no call of the follower raises a fault, steps that
\* land exactly on an intermediate waypoint included.
C22_NoFaultOnTheWay == pf_result.fault \in {"pending", "none"}

\* C28 (as claimed): if the input path has no two identical consecutive
\* points, the non-empty path the follower returns has none either.
C28_NoDegenerateSegmentCreated ==
    (/\ Returned /\ Len(pf_path) >= 2 /\ NoZeroLengthSegment(pf_path)
     /\ pf_result.fault = "none" /\ pf_result.path # <<>>)
        => NoZeroLengthSegment(pf_result.path)

----------------------------------------------------------------------------
(* Claims about assembly and dispatch (checked under CommandSpec) *)

\* the tokens object o declares
Declared(o) == {commands(o)[i] : i \in DOMAIN commands(o)}

\* the other program state a command must leave alone
OtherStateUnchanged ==
    UNCHANGED <<model_vars, waypoints, projected_path, world_vars, controller_vars>>

\* C5 (as claimed): attach_system fails exactly when the object being attached
\* declares a token that is owned by a different object.
C5_OriginalStep ==
    call'.op = "attach_system" =>
        ((fault' # "none") <=>
            (\E c \in Declared(call'.system) \cap DOMAIN command_registry :
                command_registry[c] # call'.system))
C5_FailsOnlyOnOtherOwner == [][C5_OriginalStep]_vars

\* C5 (amended): attach_system fails, with KeyError, exactly when the object
\* being attached declares a token that is already in the registry, whoever
\* owns it (the object itself included); otherwise every declared token is
\* registered to that object.  No attachment changes the owner of a registered
\* token, and every registered token is owned by an object that declares it.
C5_Step ==
    call'.op = "attach_system" =>
        /\ fault' \in {"none", "KeyError"}
        /\ (fault' = "KeyError") <=>
               (Declared(call'.system) \cap DOMAIN command_registry # {})
        /\ fault' = "none" =>
               \A c \in Declared(call'.system) :
                   c \in DOMAIN command_registry' /\ command_registry'[c] = call'.system
        /\ \A c \in DOMAIN command_registry :
               c \in DOMAIN command_registry' /\ command_registry'[c] = command_registry[c]
        /\ \A c \in DOMAIN command_registry' : c \in Declared(command_registry'[c])
C5_FailsOnRegisteredToken == [][C5_Step]_vars

\* an object attached a second time is refused over its own token, after
\* successful attachments of other objects
C5_Witness ==
    /\ call.op = "attach_system" /\ fault = "KeyError"
    /\ \A c \in Declared(call.system) :
           c \in DOMAIN command_registry /\ command_registry[c] = call.system
    /\ Cardinality(DOMAIN command_registry) > Cardinality(Declared(call.system))

\* C9: handle_command(token) with a token that is not in the registry raises
\* no fault and leaves the ship, every subsystem and the registry unchanged.
C9_Step ==
    (call'.op = "handle_command" /\ call'.args = <<>>
                                 /\ call'.command \notin DOMAIN command_registry)
        => /\ fault' = "none"
           /\ UNCHANGED <<model_vars, system_vars, world_vars, controller_vars>>
C9_UnknownCommandNonFatal == [][C9_Step]_vars

\* an unowned token dispatched on a ship that has subsystems attached: one no
\* class declares, or one whose subsystem is not attached
C9_Witness ==
    /\ call.op = "handle_command" /\ call.args = <<>>
    /\ call.command \notin DOMAIN command_registry
    /\ fault = "none"
    /\ DOMAIN command_registry # {}

\* C10 (as claimed): SET_SPEED dispatched through handle_command with one
\* argument v in [min_speed, max_speed], while an Engine owns SET_SPEED,
\* completes without fault and leaves that Engine's desired_speed equal to v.
C10_DispatchForwardsArguments ==
    (/\ call.op = "handle_command" /\ call.command = "SET_SPEED"
     /\ Len(call.args) = 1
     /\ "SET_SPEED" \in DOMAIN command_registry)
        => (call.args[1] \in min_speed..max_speed
               => /\ fault = "none"
                  /\ desired_speed[command_registry["SET_SPEED"]] = call.args[1])

\* C11 (as claimed): Navigation.handle_command("ADD_WAYPOINT", x, y) raises no
\* fault and leaves the waypoint list equal to the previous list followed by
\* (x, y).
C11_Step ==
    (/\ call'.op = "system.handle_command" /\ ClassOf(call'.system) = "Navigation"
     /\ call'.command = "ADD_WAYPOINT" /\ Len(call'.args) = 2)
        => /\ fault' = "none"
           /\ waypoints' = Append(waypoints, <<call'.args[1], call'.args[2]>>)
C11_AddWaypointCommandAppends == [][C11_Step]_vars

\* the Rudder's namespaced heading field as turn_right / turn_left read it:
\* get_attribute(self.name, "angle") or 0.  An exception raised by the read
\* passes through `or`, which replaces only a returned None by 0 and leaves a
\* returned number as it is
RudderHeadingField(m) == get_attribute(m, "Rudder", "angle")

\* C12 (as claimed): TURN_RIGHT adds 5 to and TURN_LEFT subtracts 5 from the
\* Rudder's namespaced heading field (0 when unset), the ship's angle is not
\* changed, and no fault is raised.
C12_Step ==
    LET \* the field's value in the claim's sense: 0 while nothing is stored
        heading(m) == LET r == RudderHeadingField(m)
                      IN  IF r.fault = "none" THEN r.value ELSE 0
    IN  (/\ call'.op = "system.handle_command" /\ ClassOf(call'.system) = "Rudder"
         /\ call'.command \in {"TURN_RIGHT", "TURN_LEFT"} /\ call'.args = <<>>)
            => /\ fault' = "none"
               /\ angle' = angle
               /\ heading(State') =
                      heading(State) + (IF call'.command = "TURN_RIGHT" THEN 5 ELSE -5)
C12_RudderTurnsByFive == [][C12_Step]_vars

\* C26 (as claimed): when attach_system fails, the attached subsystems and the
\* command registry are exactly what they were before the call.
C26_Step ==
    (call'.op = "attach_system" /\ fault' # "none")
        => /\ systems' = systems
           /\ command_registry' = command_registry
C26_FailedAttachIsAtomic == [][C26_Step]_vars

----------------------------------------------------------------------------
(* Claims about the attribute surface (checked under AttributeSpec) *)

\* C13 (as claimed): model_set(key, v) followed by model_get(key) returns v,
\* for a ship-level key and for a compound key of an attached subsystem, with
\* no fault; and a model_set on one key does not change what model_get
\* returns for any other key.
C13_Step ==
    /\ (call.op = "model_set" /\ call'.op = "model_get" /\ call'.key = call.key)
           => /\ fault = "none"
              /\ call'.result.fault = "none"
              /\ call'.result.value = call.value
    /\ call'.op = "model_set"
           => \A k \in AttributeKeys \ {call'.key} :
                  model_get(State', k) = model_get(State, k)
C13_AttributeRoundTrip == [][C13_Step]_vars

----------------------------------------------------------------------------
(* Claims about the Engine (checked under EngineSpec) *)

EngineSetSpeedCall(c) ==
    /\ c.op = "system.handle_command" /\ c.system \in EngineObjects
    /\ c.command = "SET_SPEED" /\ Len(c.args) = 1

\* C6: SET_SPEED(v) sets desired_speed to v only if min_speed <= v <= max_speed;
\* for v outside the range desired_speed and all other state are unchanged; no
\* fault is raised either way; desired_speed is within [min_speed, max_speed]
\* after every SET_SPEED.
C6_Step ==
    EngineSetSpeedCall(call') =>
        LET v == call'.args[1]
            o == call'.system
        IN  /\ fault' = "none"
            /\ IF min_speed <= v /\ v <= max_speed
               THEN desired_speed' = [desired_speed EXCEPT ![o] = v]
               ELSE desired_speed' = desired_speed
            /\ desired_speed'[o] \in min_speed..max_speed
            /\ OtherStateUnchanged
C6_EngineClamp == [][C6_Step]_vars

\* a SET_SPEED above max_speed that left an earlier accepted value in place
C6_Witness ==
    /\ EngineSetSpeedCall(call) /\ call.args[1] > max_speed
    /\ fault = "none"
    /\ desired_speed[call.system] \notin {initial_desired_speed, call.args[1]}

EngineTickCall(c) == c.op = "system.update" /\ c.system \in EngineObjects

\* C7: after an Engine tick made while collision_event is true, current_speed
\* is 0, whatever the speed before the tick, desired_speed and timedelta.
C7_CollisionForcedStop ==
    (EngineTickCall(call) /\ collision_event) => current_speed = 0

\* a ship under way, told to keep a nonzero speed, stopped by a tick of
\* timedelta 0 (no ramp could have brought it to 0)
C7_Witness ==
    /\ EngineTickCall(call) /\ collision_event
    /\ call.speed_before > 2 /\ call.dt = 0
    /\ desired_speed[call.system] > 0
    /\ current_speed = 0

\* C8: after an Engine tick with collision_event false and timedelta >= 0,
\* current_speed differs from the speed before the tick by at most
\* acceleration * timedelta, lies between that speed and desired_speed
\* inclusive, and has moved when the two differed and acceleration * timedelta
\* is positive.
C8_RampNeverOvershoots ==
    (EngineTickCall(call) /\ ~collision_event) =>
        LET before == call.speed_before
            desired == desired_speed[call.system]
        IN  /\ Abs(current_speed - before) * acceleration_den <= acceleration_num * call.dt
            /\ Min(before, desired) <= current_speed
            /\ current_speed <= IF before > desired THEN before ELSE desired
            /\ (before # desired /\ acceleration_num * call.dt >= acceleration_den)
                   => current_speed # before

\* a tick whose acceleration * timedelta exceeds the remaining difference:
\* the speed lands on desired_speed
C8_Witness ==
    /\ EngineTickCall(call) /\ ~collision_event
    /\ current_speed = desired_speed[call.system]
    /\ call.speed_before # current_speed
    /\ Abs(current_speed - call.speed_before) * acceleration_den < acceleration_num * call.dt

----------------------------------------------------------------------------
(* Claims about the ship run (checked under Spec) *)

\* a view update that reached BattleshipModel.update
ShipTicked == call'.op = "on_update" /\ simulation_running

\* C14: after a ship tick collision_warning is true iff the safety-margin
\* polygon placed at the pose held at the start of the tick intersects an
\* obstacle, and collision_event is true iff the hull polygon at that pose
\* does; the flags before the tick and the pose after the path advance have no
\* influence.
C14_Step ==
    ShipTicked =>
        /\ collision_warning' = CollisionWarningAt(x, y, angle)
        /\ collision_event' = CollisionEventAt(x, y, angle)
C14_FlagsReflectPreMotionPose == [][C14_Step]_vars

\* a tick that moved the ship from a pose clear of the obstacle to a pose
\* whose safety margin reaches it: the flag still reads clear
C14_Witness ==
    /\ call.op = "on_update" /\ fault = "none"
    /\ <<x, y>> # <<last_x, last_y>>
    /\ ~collision_warning
    /\ CollisionWarningAt(x, y, angle)

\* C15 (as claimed): whenever the Navigation waypoint list is non-empty, its
\* first element equals the ship's current position (x, y).
C15_HeadIsCurrentPosition ==
    waypoints # <<>> => waypoints[1] = <<x, y>>

\* the square of the distance from a to b
SquaredDistance(a, b) ==
    NAdd(NMul(NSub(b[1], a[1]), NSub(b[1], a[1])), NMul(NSub(b[2], a[2]), NSub(b[2], a[2])))

\* C16 (as claimed, the part every tick must satisfy): a ship tick on a path
\* that holds the one waypoint appended after the path became empty
\* completes without fault and does not move the vessel away from that
\* waypoint.
C16_Step ==
    (ShipTicked /\ Len(waypoints) = 1)
        => /\ fault' = "none"
           /\ NLeq(SquaredDistance(<<x', y'>>, waypoints[1]),
                   SquaredDistance(<<x, y>>, waypoints[1]))
C16_IdleThenResume == [][C16_Step]_vars

\* C18: World.update(dt) adds dt to total_time and records dt as timedelta
\* before the ship is ticked (also when that tick raises), and ticks the ship
\* exactly once: the Engine has ramped once, from the flags of the pose at
\* the start of the tick.  Step by step, total_time is the sum of the dt values.
C18_Step ==
    ShipTicked =>
        /\ total_time' = total_time + call'.dt
        /\ timedelta' = call'.dt
        /\ current_speed' = EngineUpdate(CollisionEventAt(x, y, angle), current_speed,
                                         desired_speed["engine"], call'.dt)
C18_WorldTick == [][C18_Step]_vars

\* three completed updates, with steps 0, 10 and 10 in some order
C18_Witness ==
    /\ call.op = "on_update" /\ fault = "none"
    /\ log_rows = 4 /\ total_time = 20

\* C19: a world/ship tick, also one that raises, changes neither the ship-frame
\* hull polygon nor the ship-frame safety-margin polygon (they stay the
\* polygons setup computed), nor the world's obstacle list, nor the attached
\* subsystems, nor the command registry.
C19_Step ==
    ShipTicked =>
        /\ ship_geometry' = ship_geometry /\ ship_geometry' = SetupGeometry
        /\ world_obstacles' = world_obstacles /\ world_obstacles' = obstacles
        /\ systems' = systems
        /\ command_registry' = command_registry
C19_TickFrameCondition == [][C19_Step]_vars

\* a tick that placed the polygons at a pose away from the ship frame's origin,
\* turned by 45 degrees, within reach of the obstacle, and moved the ship
C19_Witness ==
    /\ call.op = "on_update" /\ fault = "none"
    /\ collision_warning
    /\ last_angle = 45
    /\ <<x, y>> # <<last_x, last_y>>

\* C21: in one ship tick the collision flags are computed first, then the
\* subsystems are updated once, then the path is advanced: the Engine ramps
\* from the flags of this tick, the Navigation projected path is the pose and
\* the waypoints before the path advance, and the path advance uses the
\* current_speed the Engine left in this tick.
C21_Step ==
    (ShipTicked /\ fault' = "none") =>
        /\ collision_event' = CollisionEventAt(x, y, angle)
        /\ current_speed' = EngineUpdate(collision_event', current_speed,
                                         desired_speed["engine"], call'.dt)
        /\ projected_path' = <<<<x, y>>>> \o waypoints
        /\ waypoints # <<>> =>
               LET r == update_path_coordinates_with_angle(waypoints, current_speed',
                                                           call'.dt)
               IN  /\ <<x', y', angle'>> = <<r.x, r.y, r.angle>>
                   /\ waypoints' = r.path
                   /\ <<last_x', last_y', last_angle'>> = <<x, y, angle>>
        /\ waypoints = <<>> => UNCHANGED <<x, y, angle, waypoints>>
C21_TickOrder == [][C21_Step]_vars

\* a tick in which the Engine changed the speed and the ship moved by the new
\* speed times dt, while the projected path starts at the pose before the move
C21_Witness ==
    /\ call.op = "on_update" /\ fault = "none" /\ call.dt > 0
    /\ current_speed # desired_speed["engine"]
    /\ current_speed > 0
    /\ SegmentLength(<<last_x, last_y>>, <<x, y>>) = Num(current_speed * call.dt)
    /\ projected_path[1] = <<last_x, last_y>>

\* C24 (as claimed): in a ship tick at whose start the hull intersects an
\* obstacle, with a waypoint path of length >= 2, the position at the end of
\* the tick equals the position at the start.
C24_Step ==
    (ShipTicked /\ CollisionEventAt(x, y, angle) /\ Len(waypoints) >= 2)
        => <<x', y'>> = <<x, y>>
C24_NoMotionOnCollisionTick == [][C24_Step]_vars

\* C25: collision_event implies collision_warning in every state of the ship
\* run: a hull hit is also a safety-margin hit.
C25_EventImpliesWarning == collision_event => collision_warning

\* a tick that found the hull on the obstacle
C25_Witness ==
    /\ call.op = "on_update" /\ fault = "none"
    /\ collision_event /\ collision_warning
    /\ ~simulation_running

\* C27: in the ship run, which starts with current_speed within
\* [min_speed, max_speed] and ticks with dt >= 0, current_speed stays within
\* [min_speed, max_speed] after every tick, with or without collision, and
\* every SET_SPEED command.
C27_BoundedSpeed == current_speed \in min_speed..max_speed

\* three ticks after SET_SPEED(min_speed): the speed is on its way down
C27_Witness ==
    /\ call.op = "on_update" /\ fault = "none" /\ log_rows = 4
    /\ desired_speed["engine"] = min_speed
    /\ min_speed < current_speed /\ current_speed < max_speed

\* C29: a controller update that ends with collision_event true sets
\* simulation_running to false and closes the logger; from then on
\* simulation_running stays false, a view update reaches neither the
\* controller nor the world (total_time, timedelta and the pose do not
\* change, no row is logged, no fault is raised).
C29_Step ==
    /\ (ShipTicked /\ fault' = "none" /\ collision_event')
           => (~simulation_running' /\ logger_closed')
    /\ ~simulation_running
           => /\ ~simulation_running'
              /\ UNCHANGED <<total_time, timedelta, x, y, angle, log_rows, logger_closed>>
              /\ call'.op = "on_update" => fault' = "none"
C29_SimulationStopsOnCollision == [][C29_Step]_vars

\* a view update, after the simulation has stopped, with a step the world did
\* not record
C29_Witness ==
    /\ ~simulation_running /\ logger_closed /\ collision_event
    /\ call.op = "on_update" /\ fault = "none"
    /\ call.dt # timedelta

----------------------------------------------------------------------------
(* Claims about the Engine ramp (checked under RampSpec) *)

\* C23: ticked with timedelta > 0, without collision_event and without a
\* further SET_SPEED, current_speed eventually equals desired_speed and stays
\* equal to it on every later tick.
C23_EngineConvergence == <>[](current_speed = desired_speed["engine"])

\* a tick with timedelta > 0 on a speed that had reached a desired_speed other
\* than the initial one: the speed stays
C23_Witness ==
    /\ EngineTickCall(call) /\ call.dt > 0 /\ ~collision_event
    /\ desired_speed["engine"] # initial_desired_speed
    /\ call.speed_before = desired_speed["engine"]
    /\ current_speed = desired_speed["engine"]

====
